---- MODULE Spec2Model ----
(***************************************************************************)
(* Model of the kodicommunicator package of kodi_cli_remote: the command   *)
(* registry, the parameter builders, getRepeatCount, createJsonCommand,    *)
(* ExecuteCommand with its repeat loop, sendRequest and GetCommandForName. *)
(*                                                                         *)
(* Go strings that the code inspects character by character (the CLI       *)
(* tokens) are sequences of one-character strings.  Error messages are     *)
(* sequences of pieces, either a literal or a raw token, in the order the  *)
(* code concatenates them.  A Go `error` is <<>> for nil and <<msg>> for a *)
(* non-nil error, so that errors.New("") differs from nil.                 *)
(***************************************************************************)
EXTENDS Integers, Sequences, FiniteSets, TLC

\* ------------------------------------------------------------------ bounds
\* longest token list handed to ExecuteCommand
MaxParams == 2
\* largest repeat count written as a token (one decimal digit)
MaxRepeat == 2
\* most command-line arguments after the program name handed to main
MaxArgs == 2

\* ----------------------------------------------------------------- strings
Lit(s) == [lit |-> s, raw |-> <<>>]
Raw(t) == [lit |-> "", raw |-> t]

Nil == <<>>
Err(msg) == <<msg>>

\* the Go string a sequence of characters spells
RECURSIVE TokText(_)
TokText(t) == IF t = <<>> THEN "" ELSE Head(t) \o TokText(Tail(t))

\* the text of a message: its pieces concatenated
RECURSIVE MsgText(_)
MsgText(m) ==
    IF m = <<>> THEN ""
    ELSE Head(m).lit \o TokText(Head(m).raw) \o MsgText(Tail(m))

Digits == {"0", "1", "2", "3", "4", "5", "6", "7", "8", "9"}

DigitVal(c) ==
    CASE c = "0" -> 0 [] c = "1" -> 1 [] c = "2" -> 2 [] c = "3" -> 3
      [] c = "4" -> 4 [] c = "5" -> 5 [] c = "6" -> 6 [] c = "7" -> 7
      [] c = "8" -> 8 [] c = "9" -> 9

DigitChar(n) ==
    CASE n = 0 -> "0" [] n = 1 -> "1" [] n = 2 -> "2" [] n = 3 -> "3"
      [] n = 4 -> "4" [] n = 5 -> "5" [] n = 6 -> "6" [] n = 7 -> "7"
      [] n = 8 -> "8" [] n = 9 -> "9"

\* decimal digits of the largest int of a 64-bit build, 2^63 - 1
IntMaxDigits ==
    <<9, 2, 2, 3, 3, 7, 2, 0, 3, 6, 8, 5, 4, 7, 7, 5, 8, 0, 7>>

RECURSIVE StripZeros(_)
StripZeros(ds) ==
    IF Len(ds) > 1 /\ ds[1] = "0" THEN StripZeros(Tail(ds)) ELSE ds

\* ds <= limit, both digit sequences of the same length
RECURSIVE DigitsLeq(_, _, _)
DigitsLeq(ds, limit, k) ==
    IF k > Len(ds) THEN TRUE
    ELSE IF DigitVal(ds[k]) < limit[k] THEN TRUE
    ELSE IF DigitVal(ds[k]) > limit[k] THEN FALSE
    ELSE DigitsLeq(ds, limit, k + 1)

\* the magnitude fits an int: at most 2^63 - 1, or 2^63 when negative
FitsInt(ds, neg) ==
    LET s == StripZeros(ds)
        limit == IF neg THEN [IntMaxDigits EXCEPT ![19] = 8] ELSE IntMaxDigits
    IN  \/ Len(s) < Len(limit)
        \/ Len(s) = Len(limit) /\ DigitsLeq(s, limit, 1)

RECURSIVE DigitsValue(_, _)
DigitsValue(ds, acc) ==
    IF ds = <<>> THEN acc
    ELSE DigitsValue(Tail(ds), acc * 10 + DigitVal(Head(ds)))

\* strconv.Atoi: an optional sign, then one or more decimal digits
Atoi(s) ==
    LET signed == Len(s) > 0 /\ s[1] \in {"+", "-"}
        neg    == Len(s) > 0 /\ s[1] = "-"
        ds     == IF signed THEN Tail(s) ELSE s
    IN  IF ds = <<>> \/ \E k \in 1..Len(ds) : ds[k] \notin Digits
        THEN [val |-> 0,
              err |-> Err(<<Lit("strconv.Atoi: parsing \""), Raw(s),
                            Lit("\": invalid syntax")>>)]
        ELSE IF ~FitsInt(ds, neg)
        THEN [val |-> 0,
              err |-> Err(<<Lit("strconv.Atoi: parsing \""), Raw(s),
                            Lit("\": value out of range")>>)]
        ELSE [val |-> IF neg THEN 0 - DigitsValue(StripZeros(ds), 0)
                             ELSE DigitsValue(StripZeros(ds), 0),
              err |-> Nil]

\* strings.Split(s, ":")
RECURSIVE Split(_, _, _)
Split(s, cur, k) ==
    IF k > Len(s) THEN <<cur>>
    ELSE IF s[k] = ":" THEN <<cur>> \o Split(s, <<>>, k + 1)
    ELSE Split(s, Append(cur, s[k]), k + 1)

\* ------------------------------------------------------------- JSON values
JNum(n) == [num |-> n]
JStr(s) == [str |-> s]
\* a string value that holds a CLI token
JTok(t) == [tok |-> t]
JObj(m) == [obj |-> m]

\* map[string]interface{}{} ; a nil map has the same length and is
\* serialized the same way, so both are the empty function
EmptyMap == <<>>

\* ------------------------------------------------------ parameter builders
\* What a builder call produces: the returned map and error, or a run-time
\* panic.  `parsed` lists the strings handed to parseTimeNumber, in order.
Returned(m, e, parsed) ==
    [panic |-> FALSE, params |-> m, err |-> e, parsed |-> parsed]
Panicked ==
    [panic |-> TRUE, params |-> EmptyMap, err |-> Nil, parsed |-> <<>>]

TimeInRangeNoUpper(num) == ~(num < 0)
TimeInRange(num) == ~(num > 59 \/ num < 0)

TimeRangeError(number) ==
    Err(<<Lit("A time-number needs to be between "), Lit("0"), Lit(" and "),
          Lit("59"), Lit(", but was "), Raw(number)>>)

parseTimeNumber(number) ==
    LET a == Atoi(number)
    IN  IF a.err # Nil THEN [val |-> 0, err |-> a.err]
        ELSE IF ~TimeInRange(a.val)
        THEN [val |-> 0, err |-> TimeRangeError(number)]
        ELSE [val |-> a.val, err |-> Nil]

PlayerIdMap == [k \in {"playerid"} |-> JNum(1)]
MuteMap == [k \in {"mute"} |-> JStr("toggle")]

SeekSymbolSwapped(tok) ==
    IF tok = <<"+">> THEN "bigforward"
    ELSE IF tok = <<"+", "+">> THEN "smallforward"
    ELSE IF tok = <<"-">> THEN "smallbackward"
    ELSE IF tok = <<"-", "-">> THEN "bigbackward"
    ELSE ""
\* the chain of comparisons on params[0]; "" when none matches
SeekSymbol(tok) ==
    IF tok = <<"+">> THEN "smallforward"
    ELSE IF tok = <<"+", "+">> THEN "bigforward"
    ELSE IF tok = <<"-">> THEN "smallbackward"
    ELSE IF tok = <<"-", "-">> THEN "bigbackward"
    ELSE ""

SeekValueMap(v) ==
    [k \in {"playerid", "value"} |-> IF k = "playerid" THEN JNum(1) ELSE v]

TimeMap(h, m, s) ==
    [hours |-> h, minutes |-> m, seconds |-> s, milliseconds |-> 0]

ErrNotEnough ==
    Err(<<Lit("Not enough parameters. See \"help seek\" for usage information.")>>)
ErrIllegal ==
    Err(<<Lit("Illegal parameter. See \"help seek\" for usage information.")>>)

SeekTimeSourceFirst(params) == params[1]
\* the token the time branch splits
SeekTimeSource(params) == params[Len(params)]

\* the part of the seek builder after the symbolic forms
SeekTime(params) ==
    LET hms0 == Split(SeekTimeSource(params), <<>>, 1)
        three == Len(hms0) = 3
        hours == IF three THEN parseTimeNumber(hms0[1])
                          ELSE [val |-> 0, err |-> Nil]
        hms == IF three THEN Tail(hms0) ELSE hms0
        pre == IF three THEN <<hms0[1]>> ELSE <<>>
    IN  IF hours.err # Nil THEN Returned(EmptyMap, hours.err, pre)
        ELSE IF Len(hms) = 2
        THEN LET minutes == parseTimeNumber(hms[1])
                 seconds == parseTimeNumber(hms[2])
             IN  IF minutes.err # Nil
                 THEN Returned(EmptyMap, minutes.err, pre \o <<hms[1]>>)
                 ELSE IF seconds.err # Nil
                 THEN Returned(EmptyMap, seconds.err, pre \o <<hms[1], hms[2]>>)
                 ELSE Returned(
                        SeekValueMap(JObj(TimeMap(hours.val, minutes.val, seconds.val))),
                        Nil, pre \o <<hms[1], hms[2]>>)
        ELSE Returned(EmptyMap, ErrIllegal, pre)

SeekBuilderNoLengthCheck(params) ==
    IF Len(params) < 1 THEN Panicked
    ELSE LET val == SeekSymbol(params[1])
         IN  IF val # "" THEN Returned(SeekValueMap(JStr(val)), Nil, <<>>)
             ELSE SeekTime(params)
SeekBuilder(params) ==
    IF Len(params) < 1 THEN Returned(EmptyMap, ErrNotEnough, <<>>)
    ELSE LET val == SeekSymbol(params[1])
         IN  IF val # "" THEN Returned(SeekValueMap(JStr(val)), Nil, <<>>)
             ELSE SeekTime(params)

\* params[0] is read without a length check
SpeedBuilder(params) ==
    IF Len(params) < 1 THEN Panicked
    ELSE Returned([k \in {"playerid", "speed"} |->
                     IF k = "playerid" THEN JNum(1) ELSE JTok(params[1])],
                  Nil, <<>>)

NoParamsBuilder(params) == Returned(EmptyMap, Nil, <<>>)

\* ---------------------------------------------------------------- registry
Entry(cli, kodi) == [CliName |-> cli, KodiName |-> kodi]

CommandMapInputPlayer ==
    [n \in {"play", "pause", "stop", "mute", "seek", "speed", "action",
            "context", "info", "home", "back", "left", "right", "up",
            "down", "notify", "clean", "update"} |->
       CASE n = "play"    -> Entry("play", "Input.PlayPause")
         [] n = "pause"   -> Entry("pause", "Input.PlayPause")
         [] n = "stop"    -> Entry("stop", "Input.Stop")
         [] n = "mute"    -> Entry("mute", "Application.SetMute")
         [] n = "seek"    -> Entry("seek", "Player.Seek")
         [] n = "speed"   -> Entry("speed", "Player.Speed")
         [] n = "action"  -> Entry("action", "Input.Select")
         [] n = "context" -> Entry("context", "Input.ContextMenu")
         [] n = "info"    -> Entry("info", "Input.Info")
         [] n = "home"    -> Entry("home", "Input.Home")
         [] n = "back"    -> Entry("back", "Input.Back")
         [] n = "left"    -> Entry("left", "Input.Left")
         [] n = "right"   -> Entry("right", "Input.Right")
         [] n = "up"      -> Entry("up", "Input.Up")
         [] n = "down"    -> Entry("down", "Input.Down")
         [] n = "notify"  -> Entry("notify", "GUI.ShowNotification")
         [] n = "clean"   -> Entry("clean", "VideoLibrary.Clean")
         [] n = "update"  -> Entry("update", "VideoLibrary.Scan")]
CommandMap ==
    [n \in {"play", "pause", "stop", "mute", "seek", "speed", "action",
            "context", "info", "home", "back", "left", "right", "up",
            "down", "notify", "clean", "update"} |->
       CASE n = "play"    -> Entry("play", "Player.PlayPause")
         [] n = "pause"   -> Entry("pause", "Player.PlayPause")
         [] n = "stop"    -> Entry("stop", "Player.Stop")
         [] n = "mute"    -> Entry("mute", "Application.SetMute")
         [] n = "seek"    -> Entry("seek", "Player.Seek")
         [] n = "speed"   -> Entry("speed", "Player.Speed")
         [] n = "action"  -> Entry("action", "Input.Select")
         [] n = "context" -> Entry("context", "Input.ContextMenu")
         [] n = "info"    -> Entry("info", "Input.Info")
         [] n = "home"    -> Entry("home", "Input.Home")
         [] n = "back"    -> Entry("back", "Input.Back")
         [] n = "left"    -> Entry("left", "Input.Left")
         [] n = "right"   -> Entry("right", "Input.Right")
         [] n = "up"      -> Entry("up", "Input.Up")
         [] n = "down"    -> Entry("down", "Input.Down")
         [] n = "notify"  -> Entry("notify", "GUI.ShowNotification")
         [] n = "clean"   -> Entry("clean", "VideoLibrary.Clean")
         [] n = "update"  -> Entry("update", "VideoLibrary.Scan")]

\* the CreateParameterMap closure of the entry registered under `name`
CreateParameterMap(name, params) ==
    CASE name \in {"play", "pause", "stop"} -> Returned(PlayerIdMap, Nil, <<>>)
      [] name = "mute"  -> Returned(MuteMap, Nil, <<>>)
      [] name = "seek"  -> SeekBuilder(params)
      [] name = "speed" -> SpeedBuilder(params)
      [] OTHER          -> NoParamsBuilder(params)

\* GetCommandForName: the map lookup followed by the dereference *command;
\* for a missing key the pointer is nil and the dereference panics
GetCommandForName(cmd) ==
    IF cmd \in DOMAIN CommandMap
    THEN [panic |-> FALSE, command |-> CommandMap[cmd], success |-> TRUE]
    ELSE [panic |-> TRUE, command |-> Entry("", ""), success |-> FALSE]

\* ------------------------------------------------------------ repeat count
Directional(action) ==
    action = "down" \/ action = "up" \/ action = "left" \/ action = "right"

getRepeatCountNoTrim(action, params) ==
    IF Len(params) > 0 /\ Directional(action)
    THEN LET a == Atoi(params[Len(params)])
         IN  IF a.err # Nil \/ a.val < 1
             THEN [count |-> 1, params |-> params]
             ELSE [count |-> a.val, params |-> params]
    ELSE [count |-> 1, params |-> params]
\* the returned count and the token list as left behind through *params
getRepeatCount(action, params) ==
    IF Len(params) > 0 /\ Directional(action)
    THEN LET a == Atoi(params[Len(params)])
         IN  IF a.err # Nil \/ a.val < 1
             THEN [count |-> 1, params |-> params]
             ELSE [count |-> a.val,
                   params |-> SubSeq(params, 1, Len(params) - 1)]
    ELSE [count |-> 1, params |-> params]

\* ------------------------------------------------------------ serialization
\* CommandRequest after SetValues
SetValues(method, params) ==
    [JSONrpc |-> "2.0", ID |-> 1, Method |-> method, Params |-> params]

MarshalKeepsEmptyParams(command) ==
    [k \in {"jsonrpc", "method", "params", "id"} |->
       CASE k = "jsonrpc" -> JStr(command.JSONrpc)
         [] k = "method"  -> JStr(command.Method)
         [] k = "params"  -> JObj(command.Params)
         [] k = "id"      -> JNum(command.ID)]
\* json.Marshal of a CommandRequest: the object's members by key; `params`
\* carries omitempty and is left out when the map has no entries
Marshal(command) ==
    [k \in (IF DOMAIN command.Params = {}
            THEN {"jsonrpc", "method", "id"}
            ELSE {"jsonrpc", "method", "params", "id"}) |->
       CASE k = "jsonrpc" -> JStr(command.JSONrpc)
         [] k = "method"  -> JStr(command.Method)
         [] k = "params"  -> JObj(command.Params)
         [] k = "id"      -> JNum(command.ID)]

NoJson == <<>>

UnknownCommandError(action) ==
    Err(<<Lit("The Command "), Lit(action), Lit(" is unknown.")>>)

WrappedBuilderError(e) == Err(<<Lit("Invalid parameters: ")>> \o e[1])
\* how createJsonCommand hands on the builder's error
BuilderError(e) == e

createJsonCommand(action, params) ==
    IF action \in DOMAIN CommandMap
    THEN LET b == CreateParameterMap(action, params)
         IN  IF b.panic THEN [panic |-> TRUE, js |-> NoJson, err |-> Nil]
             ELSE IF b.err # Nil
             THEN [panic |-> FALSE, js |-> NoJson, err |-> BuilderError(b.err)]
             ELSE [panic |-> FALSE,
                   js |-> Marshal(SetValues(CommandMap[action].KodiName, b.params)),
                   err |-> Nil]
    ELSE [panic |-> FALSE, js |-> NoJson, err |-> UnknownCommandError(action)]

\* ---------------------------------------------------------------- responses
\* What the network can answer to one POST.  kind: "dofail" client.Do
\* returns an error, "readfail" reading the body fails, "badjson" the body
\* does not decode into an ErrorResponse, "json" it does.  A failing body
\* read returns its error exactly as a failing client.Do does and is not
\* drawn as a separate answer.
Answer(kind, hasError, code, dm, sm, sn, st) ==
    [kind |-> kind, hasError |-> hasError, code |-> code, dataMessage |-> dm,
     stackMessage |-> sm, stackName |-> sn, stackType |-> st]

Answers ==
    { Answer("dofail", FALSE, 0, "", "", "", ""),
      Answer("badjson", FALSE, 0, "", "", "", ""),
      Answer("json", FALSE, 0, "", "", "", ""),
      Answer("json", TRUE, 0, "", "", "", ""),
      Answer("json", TRUE, 402, "Invalid params", "", "title", "string"),
      Answer("json", TRUE, 1, "", "", "", ""),
      Answer("json", TRUE, -32602, "Invalid params",
             "Invalid type string received", "displaytime", "integer") }

\* json.Unmarshal into a zero ErrorResponse: absent members keep zero values
Unmarshal(r) ==
    IF r.hasError
    THEN [Code |-> r.code, DataMessage |-> r.dataMessage,
          StackMessage |-> r.stackMessage, StackName |-> r.stackName,
          StackType |-> r.stackType]
    ELSE [Code |-> 0, DataMessage |-> "", StackMessage |-> "",
          StackName |-> "", StackType |-> ""]

createJsonErrorRegardingAlways(e) ==
    Err( (IF e.DataMessage # "" THEN <<Lit(e.DataMessage), Lit(" ")>> ELSE <<>>)
      \o <<Lit(e.StackMessage), Lit("regarding ")>>
      \o (IF e.StackName # ""
          THEN <<Lit("parameter \""), Lit(e.StackName), Lit("\" ")>> ELSE <<>>)
      \o (IF e.StackType # ""
          THEN <<Lit("of type \""), Lit(e.StackType), Lit("\"")>> ELSE <<>>) )
createJsonError(e) ==
    Err( (IF e.DataMessage # "" THEN <<Lit(e.DataMessage), Lit(" ")>> ELSE <<>>)
      \o (IF e.StackMessage # "" THEN <<Lit(e.StackMessage), Lit(" regarding ")>> ELSE <<>>)
      \o (IF e.StackName # ""
          THEN <<Lit("parameter \""), Lit(e.StackName), Lit("\" ")>> ELSE <<>>)
      \o (IF e.StackType # ""
          THEN <<Lit("of type \""), Lit(e.StackType), Lit("\"")>> ELSE <<>>) )

ErrNewRequest == Err(<<Lit("parse: invalid port after host")>>)
ErrNoHost == Err(<<Lit("Post: http: no Host in request URL")>>)
ErrDo == Err(<<Lit("Post: transport failure")>>)
ErrRead == Err(<<Lit("read: unexpected EOF")>>)
ErrDecode == Err(<<Lit("json: cannot decode response")>>)

HandleResponseEmptyMessageOk(r) ==
    CASE r.kind = "dofail"   -> ErrDo
      [] r.kind = "readfail" -> ErrRead
      [] r.kind = "badjson"  -> ErrDecode
      [] r.kind = "json"     ->
           LET e == Unmarshal(r)
           IN  IF e.Code # 0 /\ createJsonError(e) # Err(<<>>)
               THEN createJsonError(e) ELSE Nil
\* the value sendRequest returns once client.Do has come back with answer r
HandleResponse(r) ==
    CASE r.kind = "dofail"   -> ErrDo
      [] r.kind = "readfail" -> ErrRead
      [] r.kind = "badjson"  -> ErrDecode
      [] r.kind = "json"     ->
           LET e == Unmarshal(r)
           IN  IF e.Code # 0 THEN createJsonError(e) ELSE Nil

\* http.NewRequest parses the URL: the port after the host must be digits
URLValid(config) ==
    \A k \in 1..Len(config.Port) : config.Port[k] \in Digits

\* ------------------------------------------------------------------ inputs
\* the count tokens: zero and the largest repeat count
CountTokens == { <<DigitChar(n)>> : n \in {0, MaxRepeat} }

Tokens ==
    CountTokens \cup
    { <<"x">>, <<"-", "1">>,
      <<"+">>, <<"+", "+">>, <<"-">>, <<"-", "-">>,
      <<"0", "1", ":", "0", "2", ":", "0", "3">>,
      <<"0", "2", ":", "7", "5">>,
      <<"5", "9", ":", "0">>,
      <<"6", "0", ":", "0", ":", "0">>,
      <<"1", ":", "x">>,
      <<"-", "1", ":", "5">>,
      <<"1", ":", "2", ":", "3", ":", "4">>,
      [k \in 1..20 |-> "9"] \o <<":", "1">> }

RECURSIVE TokenLists(_)
TokenLists(n) ==
    IF n = 0 THEN { <<>> }
    ELSE TokenLists(n - 1) \cup
         { Append(l, t) : l \in { x \in TokenLists(n - 1) : Len(x) = n - 1 },
                          t \in Tokens }

Actions == DOMAIN CommandMap \cup {"bogus"}

Configs ==
    { [Host |-> "kodi", Port |-> <<"8", "0">>],
      [Host |-> "", Port |-> <<"8", "0">>],
      [Host |-> "kodi", Port |-> <<"x">>] }

\* ------------------------------------------------------------------- state
VARIABLES
    pc,          \* "idle", "loop", "await" (POST in flight), "done", "panic"
    op,          \* "none", "execute" (ExecuteCommand), "lookup" (GetCommandForName)
    config,      \* the Configuration passed to ExecuteCommand
    action,      \* the action / the name looked up
    origParams,  \* the token list as the caller passed it
    params,      \* the token list after getRepeatCount
    repeatCount,
    i,           \* loop counter of ExecuteCommand
    cmd,         \* the serialized request
    err,         \* the variable err of ExecuteCommand
    sent,        \* bodies of the POSTs issued so far
    errs,        \* return values of the sendRequest calls so far
    answers,     \* what client.Do came back with, per POST answered
    mainv,       \* main: its os.Args, how far it got, the err it set for
                 \* an empty host, the configurations it wrote
    inflight,    \* POSTs issued and not yet answered
    result,      \* what the call returned
    found        \* GetCommandForName's (Command, bool)

vars == <<pc, op, config, action, origParams, params, repeatCount, i, cmd,
          err, sent, errs, answers, inflight, result, found, mainv>>

NoMain == [args |-> <<>>, stage |-> "none", hostErr |-> Nil, written |-> <<>>]

NotFound == [command |-> Entry("", ""), success |-> FALSE]

Init ==
    /\ pc = "idle"
    /\ op = "none"
    /\ config = [Host |-> "", Port |-> <<>>]
    /\ action = ""
    /\ origParams = <<>>
    /\ params = <<>>
    /\ repeatCount = 0
    /\ i = 0
    /\ cmd = NoJson
    /\ err = Nil
    /\ sent = <<>>
    /\ errs = <<>>
    /\ answers = <<>>
    /\ mainv = NoMain
    /\ inflight = 0
    /\ result = Nil
    /\ found = NotFound

LoopCondInclusive(k, n) == k <= n
\* the for condition of the repeat loop
LoopCond(k, n) == k < n

\* ExecuteCommand up to the repeat loop
ExecuteCommandCall(cfg, a, p) ==
    /\ pc = "idle"
    /\ LET rc == getRepeatCount(a, p)
           cj == createJsonCommand(a, rc.params)
       IN  /\ op' = "execute"
           /\ config' = cfg
           /\ action' = a
           /\ origParams' = p
           /\ params' = rc.params
           /\ repeatCount' = rc.count
           /\ i' = 0
           /\ cmd' = cj.js
           /\ err' = cj.err
           /\ result' = cj.err
           /\ pc' = IF cj.panic THEN "panic"
                    ELSE IF cj.err = Nil THEN "loop" ELSE "done"
    /\ UNCHANGED <<sent, errs, answers, inflight, found>>

\* sendRequest returning before anything is put on the wire
SendRequestRefused ==
    /\ pc = "loop"
    /\ LoopCond(i, repeatCount)
    /\ ~URLValid(config) \/ config.Host = ""
    /\ LET e == IF ~URLValid(config) THEN ErrNewRequest ELSE ErrNoHost
       IN  /\ err' = e
           /\ errs' = Append(errs, e)
    /\ i' = i + 1
    /\ UNCHANGED <<pc, op, config, action, origParams, params, repeatCount,
                   cmd, sent, answers, inflight, result, found, mainv>>

\* sendRequest up to client.Do
SendRequestPost ==
    /\ pc = "loop"
    /\ LoopCond(i, repeatCount)
    /\ URLValid(config) /\ config.Host # ""
    /\ sent' = Append(sent, cmd)
    /\ inflight' = inflight + 1
    /\ pc' = "await"
    /\ UNCHANGED <<op, config, action, origParams, params, repeatCount, i,
                   cmd, err, errs, answers, result, found, mainv>>

\* sendRequest from the return of client.Do to its own return, and i++
SendRequestReturn(r) ==
    /\ pc = "await"
    /\ LET e == HandleResponse(r)
       IN  /\ err' = e
           /\ errs' = Append(errs, e)
    /\ answers' = Append(answers, r)
    /\ inflight' = inflight - 1
    /\ i' = i + 1
    /\ pc' = "loop"
    /\ UNCHANGED <<op, config, action, origParams, params, repeatCount, cmd,
                   sent, result, found, mainv>>

\* the loop is over: return err
ExecuteCommandReturn ==
    /\ pc = "loop"
    /\ ~LoopCond(i, repeatCount)
    /\ result' = err
    /\ pc' = "done"
    /\ UNCHANGED <<op, config, action, origParams, params, repeatCount, i,
                   cmd, err, sent, errs, answers, inflight, found, mainv>>

\* a caller (the help path) looks a name up
GetCommandForNameCall(name) ==
    /\ pc = "idle"
    /\ op' = "lookup"
    /\ action' = name
    /\ LET g == GetCommandForName(name)
       IN  /\ pc' = IF g.panic THEN "panic" ELSE "done"
           /\ found' = [command |-> g.command, success |-> g.success]
    /\ UNCHANGED <<config, origParams, params, repeatCount, i, cmd, err,
                   sent, errs, answers, inflight, result, mainv>>

\* a caller invokes ExecuteCommand with some configuration, action and tokens
CallExecuteCommand ==
    /\ pc = "idle"
    /\ \E cfg \in Configs, a \in Actions, p \in TokenLists(MaxParams) :
          ExecuteCommandCall(cfg, a, p)
    /\ UNCHANGED mainv

\* client.Do comes back with one of the possible answers
AnswerArrives ==
    /\ pc = "await"
    /\ \E r \in Answers : SendRequestReturn(r)

\* a caller invokes GetCommandForName with some name
CallGetCommandForName ==
    /\ pc = "idle"
    /\ \E name \in Actions : GetCommandForNameCall(name)

\* ------------------------------------------------------------------- main
\* strings.HasPrefix
HasPrefix(s, prefix) ==
    Len(s) >= Len(prefix) /\ SubSeq(s, 1, Len(prefix)) = prefix

\* strings.Split(s, sep) for a one-character separator
RECURSIVE SplitOn(_, _, _, _)
SplitOn(s, sep, cur, k) ==
    IF k > Len(s) THEN <<cur>>
    ELSE IF s[k] = sep THEN <<cur>> \o SplitOn(s, sep, <<>>, k + 1)
    ELSE SplitOn(s, sep, Append(cur, s[k]), k + 1)

HelpToken == <<"h", "e", "l", "p">>
HostPrefix == <<"-", "-", "h", "o", "s", "t", "=">>
PortPrefix == <<"-", "-", "p", "o", "r", "t", "=">>

\* checkAndPrintHelp: the first argument equal to `help` decides; a name
\* after it is looked up with GetCommandForName
checkAndPrintHelp(args) ==
    IF \E k \in 1..Len(args) : args[k] = HelpToken
    THEN LET idx == CHOOSE k \in 1..Len(args) :
                      /\ args[k] = HelpToken
                      /\ \A j \in 1..(k - 1) : args[j] # HelpToken
         IN  IF idx < Len(args)
             THEN [handled |-> TRUE,
                   panic |-> GetCommandForName(TokText(args[idx + 1])).panic]
             ELSE [handled |-> TRUE, panic |-> FALSE]
    ELSE [handled |-> FALSE, panic |-> FALSE]

\* checkAndHandleArgumentsConfig: the configuration after the loop over
\* the arguments from position k on, and whether it changed
RECURSIVE checkAndHandleArgumentsConfig(_, _, _, _)
checkAndHandleArgumentsConfig(configuration, args, k, changed) ==
    IF k > Len(args) THEN [config |-> configuration, changed |-> changed]
    ELSE IF HasPrefix(args[k], HostPrefix)
    THEN checkAndHandleArgumentsConfig(
           [configuration EXCEPT !.Host = TokText(SplitOn(args[k], "=", <<>>, 1)[2])],
           args, k + 1, TRUE)
    ELSE IF HasPrefix(args[k], PortPrefix)
    THEN checkAndHandleArgumentsConfig(
           [configuration EXCEPT !.Port = SplitOn(args[k], "=", <<>>, 1)[2]],
           args, k + 1, TRUE)
    ELSE checkAndHandleArgumentsConfig(configuration, args, k + 1, changed)

ErrNoHostConfigured ==
    Err(<<Lit("No host configured. Please see \"help\" to learn about how to configure the remote.")>>)
ErrConfiguration == Err(<<Lit("configuration could not be created")>>)

\* what CreateConfiguration can return: a stored configuration, the empty
\* initial configuration, or an error
LoadOutcomes ==
    { [config |-> [Host |-> "kodi", Port |-> <<"8", "0">>], err |-> Nil],
      [config |-> [Host |-> "", Port |-> <<>>], err |-> Nil],
      [config |-> [Host |-> "", Port |-> <<>>], err |-> ErrConfiguration] }

MainTokens ==
    { <<"l", "e", "f", "t">>, <<"m", "u", "t", "e">>, HelpToken,
      HostPrefix \o <<"k">>, PortPrefix \o <<"8">>,
      <<DigitChar(MaxRepeat)>> }

RECURSIVE ArgLists(_)
ArgLists(n) ==
    IF n = 0 THEN { <<>> }
    ELSE ArgLists(n - 1) \cup
         { Append(l, t) : l \in { x \in ArgLists(n - 1) : Len(x) = n - 1 },
                          t \in MainTokens }

\* main with os.Args = <<program>> \o args, up to its call of
\* ExecuteCommand or to its end
MainCall(args, load) ==
    /\ pc = "idle"
    /\ LET osArgs == <<<<"k", "r", "m">>>> \o args
           help == checkAndPrintHelp(osArgs)
           cc == checkAndHandleArgumentsConfig(load.config, args, 1, FALSE)
           hostErr == IF Len(cc.config.Host) = 0 THEN ErrNoHostConfigured
                      ELSE load.err
           ended(stage, written) ==
               /\ mainv' = [args |-> osArgs, stage |-> stage,
                            hostErr |-> Nil, written |-> written]
               /\ op' = "main"
               /\ pc' = "done"
               /\ UNCHANGED <<config, action, origParams, params, repeatCount,
                              i, cmd, err, sent, errs, answers, inflight,
                              result, found>>
       IN  IF Len(osArgs) < 2 THEN ended("usage", <<>>)
           ELSE IF help.handled
           THEN /\ mainv' = [args |-> osArgs, stage |-> "help",
                             hostErr |-> Nil, written |-> <<>>]
                /\ op' = "main"
                /\ pc' = IF help.panic THEN "panic" ELSE "done"
                /\ UNCHANGED <<config, action, origParams, params, repeatCount,
                               i, cmd, err, sent, errs, answers, inflight,
                               result, found>>
           ELSE IF load.err # Nil THEN ended("loaderr", <<>>)
           ELSE IF cc.changed THEN ended("written", <<cc.config>>)
           ELSE \* err is set for an empty host, but nothing reads it: the
                \* inner `err :=` shadows it and ExecuteCommand is called
                /\ ExecuteCommandCall(cc.config, TokText(args[1]), Tail(args))
                /\ mainv' = [args |-> osArgs, stage |-> "dispatched",
                             hostErr |-> hostErr, written |-> <<>>]

\* the program is started with some arguments and some stored configuration
CallMain ==
    /\ pc = "idle"
    /\ \E args \in ArgLists(MaxArgs), load \in LoadOutcomes :
          MainCall(args, load)

Next ==
    \/ CallExecuteCommand
    \/ SendRequestRefused
    \/ SendRequestPost
    \/ AnswerArrives
    \/ ExecuteCommandReturn
    \/ CallGetCommandForName
    \/ CallMain

Spec == Init /\ [][Next]_vars

\* ============================================================== properties
\* index of the first sendRequest call that returned an error, 0 if none
FirstFailure ==
    IF \E k \in 1..Len(errs) : errs[k] # Nil
    THEN CHOOSE k \in 1..Len(errs) :
            errs[k] # Nil /\ \A j \in 1..(k - 1) : errs[j] = Nil
    ELSE 0

\* a serialized request exists
Built == op = "execute" /\ DOMAIN cmd # {}

\* C1: in ExecuteCommand with repeat count N > 1, once repeat k < N has
\* ended in an error no further request is sent: the POSTs issued stay at k.
C1_AbortsAfterFirstError ==
    (op = "execute" /\ repeatCount > 1 /\ FirstFailure # 0
        /\ FirstFailure < repeatCount)
    => Len(sent) <= FirstFailure

\* C2: ExecuteCommand returns success only if every repeat completed
\* without error; otherwise it returns the error of the first failing
\* repeat, whatever its position.
C2_ReturnsFirstFailure ==
    (op = "execute" /\ pc = "done" /\ Len(errs) > 0)
    => (IF FirstFailure = 0 THEN result = Nil
        ELSE result = errs[FirstFailure])

\* the CLI names of the table in section 4.1 of the specification
SpecNames ==
    {"play", "pause", "stop", "mute", "seek", "speed", "action", "context",
     "info", "home", "back", "left", "right", "up", "down", "notify",
     "clean", "update"}

\* C3: for an action outside the registry, or tokens the parameter builder
\* rejects, ExecuteCommand sends no request and returns a failure: the
\* unknown-action message names the action, a builder's error comes back
\* unchanged.
C3_NoRequestOnBuildFailure ==
    op = "execute" =>
      /\ action \notin SpecNames =>
           /\ pc = "done" /\ sent = <<>> /\ errs = <<>>
           /\ result # Nil
           /\ \E k \in 1..Len(result[1]) : result[1][k] = Lit(action)
      /\ (/\ action \in SpecNames
          /\ ~CreateParameterMap(action, params).panic
          /\ CreateParameterMap(action, params).err # Nil) =>
           /\ pc = "done" /\ sent = <<>> /\ errs = <<>>
           /\ result = CreateParameterMap(action, params).err

C3_Witness ==
    /\ op = "execute" /\ pc = "done" /\ action = "seek"
    /\ origParams = << <<"0", "2", ":", "7", "5">> >>
    /\ result = TimeRangeError(<<"7", "5">>)
    /\ sent = <<>>

\* C4: when every repeat is error-free ExecuteCommand issues exactly
\* repeatCount POSTs, each carrying the one payload serialized before the
\* loop, and there is never more than one request in flight: a POST is
\* sent only when all earlier ones have been answered and handled.
C4_SequentialIdenticalPosts ==
    op = "execute" =>
      /\ inflight \in {0, 1}
      /\ Len(sent) > 0 => Len(sent) = Len(errs) + inflight
      /\ \A k \in 1..Len(sent) : sent[k] = cmd
      /\ (pc = "done" /\ Len(errs) > 0 /\ FirstFailure = 0) =>
            Len(sent) = repeatCount

C4_Witness ==
    /\ op = "execute" /\ pc = "done" /\ repeatCount > 1
    /\ FirstFailure = 0 /\ Len(sent) = repeatCount /\ result = Nil

\* C5: getRepeatCount gives n and drops exactly the last token when the
\* action is up, down, left or right and the last token is an integer
\* n >= 1; in every other case it gives 1 and leaves the tokens alone.
C5_RepeatCount ==
    op = "execute" =>
      LET n == Len(origParams)
          counted == /\ action \in {"up", "down", "left", "right"}
                     /\ n > 0
                     /\ Atoi(origParams[n]).err = Nil
                     /\ Atoi(origParams[n]).val >= 1
      IN  IF counted
          THEN /\ repeatCount = Atoi(origParams[n]).val
               /\ params = SubSeq(origParams, 1, n - 1)
          ELSE /\ repeatCount = 1
               /\ params = origParams

C5_Witness ==
    /\ op = "execute" /\ action = "left" /\ Len(origParams) = 2
    /\ repeatCount > 1 /\ Len(params) = 1 /\ params[1] = origParams[1]

\* remote method per CLI name, from the table in section 4.1
SpecMethod(n) ==
    CASE n \in {"play", "pause"} -> "Player.PlayPause"
      [] n = "stop"    -> "Player.Stop"
      [] n = "mute"    -> "Application.SetMute"
      [] n = "seek"    -> "Player.Seek"
      [] n = "speed"   -> "Player.Speed"
      [] n = "action"  -> "Input.Select"
      [] n = "context" -> "Input.ContextMenu"
      [] n = "info"    -> "Input.Info"
      [] n = "home"    -> "Input.Home"
      [] n = "back"    -> "Input.Back"
      [] n = "left"    -> "Input.Left"
      [] n = "right"   -> "Input.Right"
      [] n = "up"      -> "Input.Up"
      [] n = "down"    -> "Input.Down"
      [] n = "notify"  -> "GUI.ShowNotification"
      [] n = "clean"   -> "VideoLibrary.Clean"
      [] n = "update"  -> "VideoLibrary.Scan"

\* C6: every CLI name of the table has one descriptor, registered under
\* its own name, and the request built for it carries the table's remote
\* method; play, pause and stop carry {playerid: 1}, mute {mute: "toggle"}.
C6_RegistryMatchesTable ==
    /\ DOMAIN CommandMap = SpecNames
    /\ \A n \in SpecNames : CommandMap[n].CliName = n
    /\ Built =>
         /\ action \in SpecNames
         /\ cmd["method"] = [str |-> SpecMethod(action)]
         /\ cmd["jsonrpc"] = [str |-> "2.0"]
         /\ action \in {"play", "pause", "stop"} =>
              /\ "params" \in DOMAIN cmd
              /\ cmd["params"] = [obj |-> [k \in {"playerid"} |-> [num |-> 1]]]
         /\ action = "mute" =>
              /\ "params" \in DOMAIN cmd
              /\ cmd["params"] = [obj |-> [k \in {"mute"} |-> [str |-> "toggle"]]]

C6_Witness ==
    /\ Built /\ action = "play" /\ pc = "done" /\ Len(sent) = 1
    /\ sent[1]["method"] = [str |-> "Player.PlayPause"]

\* C7: GetCommandForName called with a name that is not in the registry
\* returns a "not found" outcome (success false) instead of crashing, and
\* changes nothing else.
C7_LookupUnknownReportsNotFound ==
    (op = "lookup" /\ action \notin SpecNames)
    => (pc = "done" /\ found.success = FALSE /\ sent = <<>>)

\* the symbolic seek forms of section 4.2
SpecSeekSymbol(tok) ==
    CASE tok = <<"+">>      -> "smallforward"
      [] tok = <<"+", "+">> -> "bigforward"
      [] tok = <<"-">>      -> "smallbackward"
      [] tok = <<"-", "-">> -> "bigbackward"
      [] OTHER              -> ""

\* ExecuteCommand was called for seek with at least one token
SeekCall == op = "execute" /\ action = "seek" /\ Len(origParams) >= 1

\* C8: the seek builder, given a first token +, ++, - or --, returns
\* {playerid: 1, value: smallforward | bigforward | smallbackward |
\* bigbackward} whatever the other tokens are, and parses no time.
C8_SeekSymbolic ==
    (SeekCall /\ SpecSeekSymbol(origParams[1]) # "") =>
      /\ Built
      /\ "params" \in DOMAIN cmd
      /\ cmd["params"] =
           [obj |-> [k \in {"playerid", "value"} |->
                       IF k = "playerid" THEN [num |-> 1]
                       ELSE [str |-> SpecSeekSymbol(origParams[1])]]]
      /\ CreateParameterMap("seek", params).parsed = <<>>

C8_Witness ==
    /\ SeekCall /\ pc = "done" /\ Len(sent) = 1
    /\ origParams = << <<"-", "-">>, <<"0", "2", ":", "7", "5">> >>
    /\ sent[1]["params"].obj["value"] = [str |-> "bigbackward"]

\* the integer a time component denotes, when it is one in 0..59
ValidComponent(c) ==
    Atoi(c).err = Nil /\ Atoi(c).val >= 0 /\ Atoi(c).val <= 59

\* the parts of the last token, split on ":"
LastParts == Split(origParams[Len(origParams)], <<>>, 1)

\* seek was called with a first token that is not symbolic
SeekTimeCall == SeekCall /\ SpecSeekSymbol(origParams[1]) = ""

\* the time object of a request built for seek, as  <<present, object>>
SeekTimeValue ==
    IF "obj" \in DOMAIN cmd["params"].obj["value"]
    THEN cmd["params"].obj["value"].obj
    ELSE [hours |-> -1, minutes |-> -1, seconds |-> -1, milliseconds |-> -1]

\* C9: with a non-symbolic first token the seek builder parses only the
\* last token: a valid h:m:s gives {playerid: 1, value: {hours: h,
\* minutes: m, seconds: s, milliseconds: 0}}, a valid m:s the same with
\* hours 0; every successful time result has milliseconds 0.
C9_SeekTime ==
    SeekTimeCall =>
      /\ (Len(LastParts) = 3 /\ \A k \in 1..3 : ValidComponent(LastParts[k])) =>
           /\ Built
           /\ DOMAIN cmd["params"].obj = {"playerid", "value"}
           /\ cmd["params"].obj["playerid"] = [num |-> 1]
           /\ SeekTimeValue = [hours |-> Atoi(LastParts[1]).val,
                               minutes |-> Atoi(LastParts[2]).val,
                               seconds |-> Atoi(LastParts[3]).val,
                               milliseconds |-> 0]
      /\ (Len(LastParts) = 2 /\ \A k \in 1..2 : ValidComponent(LastParts[k])) =>
           /\ Built
           /\ DOMAIN cmd["params"].obj = {"playerid", "value"}
           /\ cmd["params"].obj["playerid"] = [num |-> 1]
           /\ SeekTimeValue = [hours |-> 0,
                               minutes |-> Atoi(LastParts[1]).val,
                               seconds |-> Atoi(LastParts[2]).val,
                               milliseconds |-> 0]
      /\ Built =>
           /\ DOMAIN SeekTimeValue = {"hours", "minutes", "seconds", "milliseconds"}
           /\ SeekTimeValue.milliseconds = 0

C9_Witness ==
    /\ SeekTimeCall /\ pc = "done" /\ Len(sent) = 1
    /\ origParams = << <<"5", "9", ":", "0">>,
                       <<"0", "1", ":", "0", "2", ":", "0", "3">> >>
    /\ sent[1]["params"].obj["value"] =
         [obj |-> [hours |-> 1, minutes |-> 2, seconds |-> 3, milliseconds |-> 0]]

\* the components the builder reads, in the order hours, minutes, seconds
\* (none when the last token has neither two nor three parts)
TimeComponents ==
    IF Len(LastParts) \in {2, 3} THEN LastParts ELSE <<>>

\* index of the first component that is not an integer in 0..59, 0 if none
FirstBadComponent ==
    IF \E k \in 1..Len(TimeComponents) : ~ValidComponent(TimeComponents[k])
    THEN CHOOSE k \in 1..Len(TimeComponents) :
            /\ ~ValidComponent(TimeComponents[k])
            /\ \A j \in 1..(k - 1) : ValidComponent(TimeComponents[j])
    ELSE 0

\* the message of error e contains the raw string
NamesRaw(e, raw) == \E k \in 1..Len(e[1]) : e[1][k] = Raw(raw)

\* the message of error e states the bounds 0 and 59
NamesRange(e) ==
    \E j, k \in 1..Len(e[1]) :
        j < k /\ e[1][j] = Lit("0") /\ e[1][k] = Lit("59")

\* no component of a built time payload lies outside 0..59
ComponentsInRange ==
    (SeekTimeCall /\ Built) =>
        /\ SeekTimeValue.hours \in 0..59
        /\ SeekTimeValue.minutes \in 0..59
        /\ SeekTimeValue.seconds \in 0..59

\* C10 as stated: any time component that is non-numeric, negative or over
\* 59 makes the seek builder fail with a message naming the raw string and
\* the range [0,59]; no successful seek payload has a component outside
\* 0..59.
C10_AsStated ==
    /\ (SeekTimeCall /\ FirstBadComponent # 0) =>
          /\ pc = "done" /\ sent = <<>> /\ result # Nil
          /\ NamesRaw(result, TimeComponents[FirstBadComponent])
          /\ NamesRange(result)
    /\ ComponentsInRange

\* C10 amended: a component that is not an integer in 0..59 makes the seek
\* builder fail with a message naming the raw string of the first such
\* component; the message states the bounds 0 and 59 exactly when the
\* string is an integer that lies outside 0..59, and is the integer
\* parser's own error, unchanged, when the string is not an integer the
\* parser accepts; no successful seek payload has a component outside
\* 0..59.
C10_TimeComponentRange ==
    /\ (SeekTimeCall /\ FirstBadComponent # 0) =>
          LET raw == TimeComponents[FirstBadComponent]
          IN  /\ pc = "done" /\ sent = <<>> /\ result # Nil
              /\ NamesRaw(result, raw)
              /\ NamesRange(result) <=> Atoi(raw).err = Nil
              /\ Atoi(raw).err # Nil => result = Atoi(raw).err
    /\ ComponentsInRange

C10_Witness ==
    /\ SeekTimeCall /\ pc = "done" /\ sent = <<>>
    /\ origParams = << <<"6", "0", ":", "0", ":", "0">> >>
    /\ NamesRaw(result, <<"6", "0">>) /\ NamesRange(result)

\* C11: the seek builder fails with "not enough parameters" when given no
\* tokens, and with "illegal parameter" when the first token is not
\* symbolic and the last token splits on ":" into a number of parts other
\* than 2 or 3; in both cases no payload is produced and no request sent.
C11_SeekRejections ==
    (op = "execute" /\ action = "seek") =>
      /\ origParams = <<>> =>
           /\ pc = "done" /\ ~Built /\ sent = <<>> /\ errs = <<>>
           /\ result # Nil
           /\ MsgText(result[1]) =
                "Not enough parameters. See \"help seek\" for usage information."
      /\ (SeekTimeCall /\ Len(LastParts) \notin {2, 3}) =>
           /\ pc = "done" /\ ~Built /\ sent = <<>> /\ errs = <<>>
           /\ result # Nil
           /\ MsgText(result[1]) =
                "Illegal parameter. See \"help seek\" for usage information."

C11_Witness ==
    /\ op = "execute" /\ action = "seek" /\ pc = "done"
    /\ origParams = << <<"x">>, <<"1", ":", "2", ":", "3", ":", "4">> >>
    /\ result = ErrIllegal /\ sent = <<>>

\* the actions whose builder takes no parameters, and notify
SpecNoParams ==
    {"action", "context", "info", "home", "back", "left", "right", "up",
     "down", "clean", "update", "notify"}

SpecExampleAnswer ==
    [kind |-> "json", hasError |-> TRUE, code |-> 402,
     dataMessage |-> "Invalid params", stackMessage |-> "",
     stackName |-> "title", stackType |-> "string"]

\* the segments of section 7 in order, empty ones left out
SpecComposed(r) ==
       (IF r.dataMessage # "" THEN r.dataMessage \o " " ELSE "")
    \o (IF r.stackMessage # "" THEN r.stackMessage \o " regarding " ELSE "")
    \o (IF r.stackName # "" THEN "parameter \"" \o r.stackName \o "\" " ELSE "")
    \o (IF r.stackType # "" THEN "of type \"" \o r.stackType \o "\"" ELSE "")

\* answer k was a decodable response with a non-zero error code
RemoteError(k) == answers[k].kind = "json" /\ answers[k].hasError /\ answers[k].code # 0

\* C13 as stated: the example response (code 402, data message "Invalid
\* params", stack name "title", stack type "string") is reported with
\* exactly  Invalid params regarding parameter "title" of type "string";
\* in general the message is the data message, the stack message suffixed
\* "regarding", the quoted stack name and the quoted stack type, in that
\* order, empty segments left out.
C13_AsStated ==
    \A k \in 1..Len(answers) :
      /\ answers[k] = SpecExampleAnswer =>
           /\ errs[k] # Nil
           /\ MsgText(errs[k][1]) =
                "Invalid params regarding parameter \"title\" of type \"string\""
      /\ (RemoteError(k) /\ answers[k] # SpecExampleAnswer) =>
           /\ errs[k] # Nil
           /\ MsgText(errs[k][1]) = SpecComposed(answers[k])

\* C13 amended: the example response is reported with exactly
\* Invalid params parameter "title" of type "string"  (no "regarding",
\* its stack message being empty); in general the message is the data
\* message, the stack message suffixed "regarding", the quoted stack name
\* and the quoted stack type, in that order, empty segments left out.
C13_ComposedMessage ==
    \A k \in 1..Len(answers) :
      /\ answers[k] = SpecExampleAnswer =>
           /\ errs[k] # Nil
           /\ MsgText(errs[k][1]) =
                "Invalid params parameter \"title\" of type \"string\""
      /\ RemoteError(k) =>
           /\ errs[k] # Nil
           /\ MsgText(errs[k][1]) = SpecComposed(answers[k])

C13_Witness ==
    /\ op = "execute" /\ pc = "done" /\ answers = <<SpecExampleAnswer>>
    /\ result # Nil
    /\ MsgText(result[1]) = "Invalid params parameter \"title\" of type \"string\""

\* C14: a decodable response whose error.code is 0, or that has no error
\* member, counts as success for that request (sendRequest returns nil and
\* the repeat loop goes on); one with a non-zero error.code is a failure.
C14_CodeDecidesSuccess ==
    /\ \A k \in 1..Len(answers) :
         answers[k].kind = "json" =>
           (errs[k] = Nil <=> (~answers[k].hasError \/ answers[k].code = 0))
    /\ (Built /\ Len(errs) < repeatCount) => pc \in {"loop", "await"}

C14_Witness ==
    /\ op = "execute" /\ pc = "done" /\ Len(answers) = 2
    /\ answers[1].kind = "json" /\ ~answers[1].hasError
    /\ answers[2].kind = "json" /\ answers[2].hasError /\ answers[2].code = 0
    /\ errs = <<Nil, Nil>> /\ result = Nil

\* C15: for every command of the registry and every token sequence, the
\* empty one included, the parameter builder returns a payload or a
\* validation failure and never crashes; ExecuteCommand for speed with no
\* tokens ends in a request or a returned failure.
C15_BuildersNeverCrash ==
    (op = "execute" /\ action \in SpecNames) =>
      /\ pc # "panic"
      /\ ~CreateParameterMap(action, params).panic

\* main ran with an argument that starts with --host= or --port=
ConfigArgs ==
    \E k \in 2..Len(mainv.args) :
        \/ HasPrefix(mainv.args[k], HostPrefix)
        \/ HasPrefix(mainv.args[k], PortPrefix)

\* C16: main dispatches a command (calls ExecuteCommand) only when the
\* loaded configuration has a non-empty host; with an empty host it
\* reports "No host configured" and attempts no dispatch; and when the
\* arguments contain --host= or --port= the configuration is written and
\* no command is dispatched.
C16_DispatchNeedsHost ==
    /\ mainv.stage = "dispatched" => config.Host # ""
    /\ mainv.hostErr # Nil =>
         /\ op # "execute" /\ sent = <<>>
         /\ pc = "done" /\ result = mainv.hostErr
    /\ (mainv.stage \in {"written", "dispatched"} /\ ConfigArgs) =>
         /\ mainv.stage = "written" /\ Len(mainv.written) = 1
         /\ op # "execute" /\ sent = <<>>

====
